---- MODULE Spec2Model ----
(***************************************************************************)
(* Model of the RISK-SCANNING keyword scanner: main.py (dispatch, main     *)
(* loop, report writing) and extraction.py (the extraction capabilities    *)
(* and the keyword matcher).                                               *)
(*                                                                         *)
(* Python strings are TLA+ strings; TLC evaluates Len, \o, SubSeq, Head    *)
(* and Tail on them as on sequences of characters.                         *)
(***************************************************************************)
EXTENDS Integers, Sequences, FiniteSets, TLC

VARIABLES files, keywords, pc, i, extracted_text, word_results, k,
          matched_count, unmatched_count, file_matched,
          processed_files, matched_files, unmatched_files,
          file_word_counts, all_results, now, run, artifacts, writes

vars == <<files, keywords, pc, i, extracted_text, word_results, k,
          matched_count, unmatched_count, file_matched,
          processed_files, matched_files, unmatched_files,
          file_word_counts, all_results, now, run, artifacts, writes>>

(***************************************************************************)
(* Bounds of the model.                                                    *)
(***************************************************************************)
MaxFiles == 2
MaxKeywords == 2
MaxPages == 2
MaxRuns == 2

(***************************************************************************)
(* Python string primitives.                                               *)
(***************************************************************************)
UpperLetters == "ABCDEFGHIJKLMNOPQRSTUVWXYZ"
LowerLetters == "abcdefghijklmnopqrstuvwxyz"
Whitespace == {" ", "\n", "\t", "\r"}

CharAt(s, j) == SubSeq(s, j, j)

\* str.lower() on one character
LowerChar(c) ==
  IF \E j \in 1..Len(UpperLetters) : CharAt(UpperLetters, j) = c
  THEN CharAt(LowerLetters, CHOOSE j \in 1..Len(UpperLetters) : CharAt(UpperLetters, j) = c)
  ELSE c

RECURSIVE LowerStr(_)
\* str.lower()
LowerStr(s) == IF s = "" THEN "" ELSE LowerChar(Head(s)) \o LowerStr(Tail(s))

\* str.endswith(suffix)
EndsWith(s, suffix) ==
  /\ Len(s) >= Len(suffix)
  /\ SubSeq(s, Len(s) - Len(suffix) + 1, Len(s)) = suffix

\* str.startswith(prefix)
StartsWith(s, prefix) ==
  /\ Len(s) >= Len(prefix)
  /\ SubSeq(s, 1, Len(prefix)) = prefix

\* `word in text` for a str text: literal, case-sensitive substring
Contains(text, word) ==
  \E j \in 1..(Len(text) - Len(word) + 1) : SubSeq(text, j, j + Len(word) - 1) = word

\* `word in text` for a list text: equality with one element
Member(cells, word) == \E j \in 1..Len(cells) : cells[j] = word

\* bool(s.strip()) is False
Blank(s) == \A j \in 1..Len(s) : CharAt(s, j) \in Whitespace

\* str.rfind(c): the last index of character c, 0 when absent
LastIndexOf(s, c) ==
  IF \E j \in 1..Len(s) : CharAt(s, j) = c
  THEN CHOOSE j \in 1..Len(s) :
         /\ CharAt(s, j) = c
         /\ \A m \in (j + 1)..Len(s) : CharAt(s, m) # c
  ELSE 0

\* s.split(sep)[-1]
LastSegment(s, sep) == SubSeq(s, LastIndexOf(s, sep) + 1, Len(s))

\* os.path.basename (posix)
basename(p) == LastSegment(p, "/")

\* os.path.splitext(p)[1] (posix): the extension starts at the last dot of the
\* last component, unless only dots precede it in that component
splitext(p) ==
  LET sepIndex == LastIndexOf(p, "/")
      dotIndex == LastIndexOf(p, ".")
  IN IF /\ dotIndex > sepIndex
        /\ \E j \in (sepIndex + 1)..(dotIndex - 1) : CharAt(p, j) # "."
     THEN SubSeq(p, dotIndex, Len(p))
     ELSE ""

\* os.path.join(a, b) (posix)
join(a, b) ==
  IF StartsWith(b, "/") THEN b
  ELSE IF a = "" \/ EndsWith(a, "/") THEN a \o b
  ELSE a \o "/" \o b

(***************************************************************************)
(* The value a capability hands back: a str, a list of str, None, or an    *)
(* exception that propagates to the caller.                                *)
(***************************************************************************)
StrValue(t) == [kind |-> "str", text |-> t, cells |-> <<>>]
ListValue(c) == [kind |-> "list", text |-> "", cells |-> c]
NoneValue == [kind |-> "none", text |-> "", cells |-> <<>>]
Raised(msg) == [kind |-> "raise", text |-> msg, cells |-> <<>>]

\* Python truthiness of the value returned by process_file
Truthy(v) ==
  \/ v.kind = "str" /\ v.text # ""
  \/ v.kind = "list" /\ v.cells # <<>>

(***************************************************************************)
(* A document: its path and what the parsing libraries make of its bytes.  *)
(*   io      "ok", "notfound" (FileNotFoundError) or "error" (any other    *)
(*           I/O or parser exception, with message err)                    *)
(*   text    the text the format's library yields for a str capability     *)
(*   cells   the string-typed cell values of a tabular document            *)
(*   fitz, plumber  per page, what PyMuPDF / pdfplumber return: a text,    *)
(*           None, or an exception                                         *)
(*   parts   of an .eml message: "single", "multi_plain", "multi_noplain"  *)
(***************************************************************************)
Doc(path, io, text) ==
  [path |-> path, io |-> io, err |-> "invalid text", text |-> text, cells |-> <<>>,
   fitz |-> <<>>, plumber |-> <<>>, parts |-> "single"]

PageText(t) == [kind |-> "text", text |-> t]
PageNone == [kind |-> "none", text |-> ""]
PageExc == [kind |-> "exc", text |-> ""]

Sentinel == "No text extracted."
NotFoundMessage(file_path) == "Error: The file '" \o file_path \o "' was not found."
ErrorMessage(e) == "An error occurred: " \o e
\* str(UnboundLocalError) for email_body, read before any assignment
UnboundMessage == "cannot access local variable 'email_body' where it is not associated with a value"

RECURSIVE ReadPages(_, _)
\* `for page in ...: text += page...` inside a try: the text accumulated and
\* whether an exception ended the loop (str += None raises TypeError)
ReadPages(pages, text) ==
  IF pages = <<>> THEN [text |-> text, failed |-> FALSE]
  ELSE IF Head(pages).kind = "text" THEN ReadPages(Tail(pages), text \o Head(pages).text)
  ELSE [text |-> text, failed |-> TRUE]

extract_text_from_pdf(d) ==
  LET first == ReadPages(d.fitz, "")
  IN IF ~first.failed /\ ~Blank(first.text) THEN StrValue(first.text)
     ELSE LET second == ReadPages(d.plumber, first.text)
          IN IF ~second.failed /\ ~Blank(second.text) THEN StrValue(second.text)
             ELSE StrValue(Sentinel)

\* Presentation(path) is not guarded: a parser or I/O exception propagates
extract_text_from_ppt(d) ==
  IF d.io = "ok" THEN StrValue(d.text) ELSE Raised(d.err)

\* Document(path) is not guarded either
extract_text_from_docx(d) ==
  IF d.io = "ok" THEN StrValue(d.text) ELSE Raised(d.err)

\* the ".json" lambda: json.load(open(...)), no try
extract_text_from_json(d) ==
  IF d.io = "ok" THEN StrValue(d.text) ELSE Raised(d.err)

\* the ".txt" lambda: open(...).read(), no try
extract_text_from_txt(d) ==
  IF d.io = "ok" THEN StrValue(d.text) ELSE Raised(d.err)

extract_text_from_csv(d) == ListValue(d.cells)

extract_text_from_excel(d) ==
  IF EndsWith(d.path, ".xlsx") THEN ListValue(d.cells)
  ELSE IF EndsWith(d.path, ".xls") THEN ListValue(d.cells)
  ELSE Raised("File format not supported. Please provide an .xlsx or .xls file.")

\* every exception is logged and re-raised; the suffix tests read the path as
\* given, not lower-cased
read_excel_file(d) ==
  IF EndsWith(d.path, ".csv")
  THEN IF d.io = "ok" THEN extract_text_from_csv(d) ELSE Raised(d.err)
  ELSE IF EndsWith(d.path, ".xls") \/ EndsWith(d.path, ".xlsx")
  THEN IF d.io = "ok" THEN extract_text_from_excel(d) ELSE Raised(d.err)
  ELSE Raised("Unsupported file format.")

extract_text_from_log(d) ==
  IF d.io = "ok" THEN StrValue(d.text)
  ELSE IF d.io = "notfound" THEN StrValue(NotFoundMessage(d.path))
  ELSE StrValue(ErrorMessage(d.err))

extract_text_from_outlook(d) ==
  IF d.io = "ok" THEN StrValue(d.text)
  ELSE IF d.io = "notfound" THEN StrValue(NotFoundMessage(d.path))
  ELSE StrValue(ErrorMessage(d.err))

\* a multi-part message with no text/plain part leaves email_body unbound;
\* the UnboundLocalError is caught by `except Exception`
extract_text_from_eml(d) ==
  IF d.io = "ok"
  THEN IF d.parts = "multi_noplain" THEN StrValue(ErrorMessage(UnboundMessage))
       ELSE StrValue(d.text)
  ELSE IF d.io = "notfound" THEN StrValue(NotFoundMessage(d.path))
  ELSE StrValue(ErrorMessage(d.err))

extract_text_from_yaml(d) ==
  IF d.io = "ok" THEN StrValue(d.text)
  ELSE IF d.io = "notfound" THEN StrValue(NotFoundMessage(d.path))
  ELSE StrValue(ErrorMessage(d.err))

\* the keys of PROCESSORS
ProcessorKeys ==
  {".pdf", ".ppt", ".pptx", ".docx", ".json", ".txt", ".csv", ".xls", ".xlsx",
   ".log", ".msg", ".eml", ".yaml"}

\* PROCESSORS[ext](file_path, logging)
PROCESSORS(ext, d) ==
  CASE ext = ".pdf" -> extract_text_from_pdf(d)
    [] ext \in {".ppt", ".pptx"} -> extract_text_from_ppt(d)
    [] ext = ".docx" -> extract_text_from_docx(d)
    [] ext = ".json" -> extract_text_from_json(d)
    [] ext = ".txt" -> extract_text_from_txt(d)
    [] ext \in {".csv", ".xls", ".xlsx"} -> read_excel_file(d)
    [] ext = ".log" -> extract_text_from_log(d)
    [] ext = ".msg" -> extract_text_from_outlook(d)
    [] ext = ".eml" -> extract_text_from_eml(d)
    [] ext = ".yaml" -> extract_text_from_yaml(d)

\* the extension is taken from the lower-cased path, the capability receives
\* the path as given
process_file(d) ==
  LET ext == splitext(LowerStr(d.path))
  IN IF ext \in ProcessorKeys THEN PROCESSORS(ext, d) ELSE NoneValue

(***************************************************************************)
(* The keyword matcher.  found_words is a dict: a keyword that occurs      *)
(* twice in the list has one entry, at the place of its first occurrence.  *)
(***************************************************************************)
\* `word in text`: substring for a str, element equality for a list
In(word, v) == IF v.kind = "list" THEN Member(v.cells, word) ELSE Contains(v.text, word)

RECURSIVE DictKeys(_, _)
\* the keys of a dict filled in the order of `words`, given those already there
DictKeys(words, seen) ==
  IF words = <<>> THEN <<>>
  ELSE IF Head(words) \in seen THEN DictKeys(Tail(words), seen)
  ELSE <<Head(words)>> \o DictKeys(Tail(words), seen \cup {Head(words)})

\* one entry per row of the keyword list, duplicates kept
PerRowResults(v, kws) == [j \in 1..Len(kws) |-> [word |-> kws[j], found |-> In(kws[j], v)]]

search_words_in_text(v, kws) ==
  LET keys == DictKeys(kws, {})
  IN [j \in 1..Len(keys) |-> [word |-> keys[j], found |-> In(keys[j], v)]]

(***************************************************************************)
(* Inputs of a run.                                                        *)
(***************************************************************************)
directory_path == "/d"
output_directory == "/o"

\* the documents a scanned directory may hold
Catalog ==
  { Doc("/d/a.txt", "ok", "concatenate"),
    Doc("/d/s/a.txt", "ok", "Cat"),
    Doc("/d/e.txt", "ok", ""),
    Doc("/d/i.bmp", "ok", ""),
    Doc("/d/w.docx", "error", ""),
    [Doc("/d/t.csv", "ok", "") EXCEPT !.cells = <<"concatenate", "text">>],
    [Doc("/d/T.CSV", "ok", "") EXCEPT !.cells = <<"concatenate", "text">>],
    Doc("/d/p.pdf", "ok", ""),
    [Doc("/d/R.PDF", "ok", "") EXCEPT !.fitz = <<PageText("cat")>>],
    Doc("/d/l.log", "notfound", ""),
    [Doc("/d/m.eml", "ok", "") EXCEPT !.parts = "multi_noplain"],
    Doc("/d/c.yaml", "error", "") }

\* the terms a rules file may hold in its keywords column
Vocabulary == {"cat", "text"}

\* every PDF of at most MaxPages pages, by what its two parsers do
PdfCatalog ==
  LET PageLists(S) == UNION {[1..n -> S] : n \in 0..MaxPages}
  IN { [Doc("/d/p.pdf", "ok", "") EXCEPT !.fitz = f, !.plumber = p] :
         f \in PageLists({PageText("ab"), PageText(" "), PageExc}),
         p \in PageLists({PageText("cd"), PageText(" "), PageNone, PageExc}) }

\* lists of distinct documents, as os.walk yields them (never empty:
\* terminal_args returns None for an empty listing and main returns)
FileLists(docs) ==
  { fs \in UNION {[1..n -> docs] : n \in 1..MaxFiles} :
      \A a, b \in 1..Len(fs) : a # b => fs[a].path # fs[b].path }

KeywordLists == UNION {[1..n -> Vocabulary] : n \in 0..MaxKeywords}

\* {} as a dict
EmptyDict == [x \in {} |-> x]

InitWith(fileLists) ==
  /\ files \in fileLists
  /\ keywords \in KeywordLists
  /\ pc = "extract"
  /\ i = 1
  /\ extracted_text = NoneValue
  /\ word_results = <<>>
  /\ k = 1
  /\ matched_count = 0
  /\ unmatched_count = 0
  /\ file_matched = FALSE
  /\ processed_files = {}
  /\ matched_files = {}
  /\ unmatched_files = {}
  /\ file_word_counts = EmptyDict
  /\ all_results = <<>>
  /\ now = 0
  /\ run = 1
  /\ artifacts = EmptyDict
  /\ writes = {}

Init == InitWith(FileLists(Catalog))

\* the path of the file the loop is at, and the document found there
file == files[i].path
file_path == join(directory_path, file)
document == [files[i] EXCEPT !.path = file_path]

(***************************************************************************)
(* main(): the loop over the files.                                        *)
(***************************************************************************)
\* the loop moves to the next file, or leaves the loop after the last one
NextFile ==
  /\ i' = i + 1
  /\ pc' = IF i + 1 > Len(files) THEN "write" ELSE "extract"

\* rows for "matched" results only
AppendRowMatchedOnly(rows, name, path, word, found) ==
  IF found
  THEN Append(rows, [file_name |-> name, file_path |-> path, keyword |-> word, status |-> "matched"])
  ELSE rows

\* all_results.append([...]) of either branch of the inner loop
AppendRow(rows, name, path, word, found) ==
  Append(rows, [file_name |-> name, file_path |-> path, keyword |-> word,
                status |-> IF found THEN "matched" ELSE "not matched"])

\* a file with any keyword that did not match goes to unmatched_files
ClassifyByUnmatchedCount(unmatched, path, fileMatched, unmatchedCount) ==
  IF unmatchedCount > 0 THEN unmatched \cup {path} ELSE unmatched

\* `if not file_matched: unmatched_files.add(file_path)`
ClassifyUnmatched(unmatched, path, fileMatched, unmatchedCount) ==
  IF ~fileMatched THEN unmatched \cup {path} ELSE unmatched

\* process_file, processed_files.add and the test of extracted_text; an
\* exception out of process_file ends main with a traceback
ProcessFile ==
  /\ pc = "extract"
  /\ i <= Len(files)
  /\ LET result == process_file(document)
     IN /\ extracted_text' = result
        /\ IF result.kind = "raise"
           THEN /\ pc' = "aborted"
                /\ UNCHANGED <<i, processed_files, word_results, k, matched_count,
                               unmatched_count, file_matched>>
           ELSE /\ processed_files' = processed_files \cup {file_path}
                /\ IF Truthy(result)
                   THEN /\ word_results' = search_words_in_text(result, keywords)
                        /\ k' = 1
                        /\ matched_count' = 0
                        /\ unmatched_count' = 0
                        /\ file_matched' = FALSE
                        /\ pc' = "words"
                        /\ UNCHANGED i
                   ELSE /\ NextFile
                        /\ UNCHANGED <<word_results, k, matched_count, unmatched_count,
                                       file_matched>>
  /\ UNCHANGED <<files, keywords, matched_files, unmatched_files, file_word_counts,
                 all_results, now, run, artifacts, writes>>

\* one turn of `for word, result in word_results.items()`
RecordWord ==
  /\ pc = "words"
  /\ k <= Len(word_results)
  /\ LET word == word_results[k].word
         result == word_results[k].found
     IN /\ all_results' = AppendRow(all_results, LastSegment(file, "\\"), file_path, word, result)
        /\ IF result
           THEN /\ matched_files' = matched_files \cup {file_path}
                /\ matched_count' = matched_count + 1
                /\ file_matched' = TRUE
                /\ UNCHANGED unmatched_count
           ELSE /\ unmatched_count' = unmatched_count + 1
                /\ UNCHANGED <<matched_files, matched_count, file_matched>>
  /\ k' = k + 1
  /\ UNCHANGED <<files, keywords, pc, i, extracted_text, word_results, processed_files,
                 unmatched_files, file_word_counts, now, run, artifacts, writes>>

\* after the inner loop: the file's counts and its place in unmatched_files
FinishFile ==
  /\ pc = "words"
  /\ k > Len(word_results)
  /\ file_word_counts' =
       (basename(file_path) :> [matched_count |-> matched_count,
                                unmatched_count |-> unmatched_count])
       @@ file_word_counts
  /\ unmatched_files' = ClassifyUnmatched(unmatched_files, file_path, file_matched, unmatched_count)
  /\ NextFile
  /\ UNCHANGED <<files, keywords, extracted_text, word_results, k, matched_count,
                 unmatched_count, file_matched, processed_files, matched_files,
                 all_results, now, run, artifacts, writes>>

(***************************************************************************)
(* main(): the two artifacts.                                              *)
(***************************************************************************)
Digits == "0123456789"
TwoDigits(n) == CharAt(Digits, (n \div 10) + 1) \o CharAt(Digits, (n % 10) + 1)

\* datetime.strftime("%Y-%m-%d_%HH_%MM") of the time t, in seconds since the
\* midnight that starts 2024-01-01: the seconds do not appear
strftime(t) ==
  "2024-01-" \o TwoDigits((t \div 86400) + 1) \o "_" \o TwoDigits((t \div 3600) % 24)
    \o "H_" \o TwoDigits((t \div 60) % 60) \o "M"

\* the seconds that may pass before the clock is read
Elapsed == {1, 30, 60}

\* what save_results_to_excel writes
TableArtifact(r, rows) ==
  [run |-> r, rows |-> rows,
   processed_files |-> {}, matched_files |-> {}, unmatched_files |-> {},
   processed_files_count |-> 0, matched_files_count |-> 0, unmatched_files_count |-> 0,
   file_word_counts |-> EmptyDict]

\* what create_json_report writes
ReportArtifact(r) ==
  [run |-> r, rows |-> <<>>,
   processed_files |-> processed_files, matched_files |-> matched_files,
   unmatched_files |-> unmatched_files,
   processed_files_count |-> Cardinality(processed_files),
   matched_files_count |-> Cardinality(matched_files),
   unmatched_files_count |-> Cardinality(unmatched_files),
   file_word_counts |-> file_word_counts]

output_file(t) == join(output_directory, "Output_" \o strftime(t) \o ".xlsx")
report_file == join(output_directory, "processing_report.json")

\* save_results_to_excel and create_json_report: open(..., 'w') and to_excel
\* replace a file that is already there
WriteArtifacts ==
  /\ pc = "write"
  /\ \E e \in Elapsed :
       /\ now' = now + e
       /\ artifacts' = (report_file :> ReportArtifact(run))
                       @@ (output_file(now + e) :> TableArtifact(run, all_results))
                       @@ artifacts
       /\ writes' = writes \cup {[run |-> run, name |-> output_file(now + e)],
                                 [run |-> run, name |-> report_file]}
  /\ pc' = "done"
  /\ UNCHANGED <<files, keywords, i, extracted_text, word_results, k, matched_count,
                 unmatched_count, file_matched, processed_files, matched_files,
                 unmatched_files, file_word_counts, all_results, run>>

\* the program is started again on the same directory, rules and output directory
StartRun ==
  /\ pc \in {"done", "aborted"}
  /\ run < MaxRuns
  /\ run' = run + 1
  /\ pc' = "extract"
  /\ i' = 1
  /\ extracted_text' = NoneValue
  /\ word_results' = <<>>
  /\ k' = 1
  /\ matched_count' = 0
  /\ unmatched_count' = 0
  /\ file_matched' = FALSE
  /\ processed_files' = {}
  /\ matched_files' = {}
  /\ unmatched_files' = {}
  /\ file_word_counts' = EmptyDict
  /\ all_results' = <<>>
  /\ UNCHANGED <<files, keywords, now, artifacts, writes>>

Next == ProcessFile \/ RecordWord \/ FinishFile \/ WriteArtifacts

Spec == Init /\ [][Next]_vars

\* one PDF, of any behaviour of its two parsers
InitPdf == InitWith(FileLists(PdfCatalog))
SpecPdf == InitPdf /\ [][Next]_vars

\* runs that follow one another into the same output directory
RunCatalog ==
  { Doc("/d/a.txt", "ok", "concatenate"),
    Doc("/d/i.bmp", "ok", ""),
    Doc("/d/w.docx", "error", "") }
InitRuns == InitWith(FileLists(RunCatalog))
NextRuns == Next \/ StartRun
SpecRuns == InitRuns /\ [][NextRuns]_vars

(***************************************************************************)
(* Properties.                                                             *)
(***************************************************************************)
\* the path main builds for the j-th discovered file, and the document there
PathOf(j) == join(directory_path, files[j].path)
DocOf(j) == [files[j] EXCEPT !.path = PathOf(j)]
Discovered == {PathOf(j) : j \in 1..Len(files)}

\* the same document under the lower-cased path
LowerForm(d) == [d EXCEPT !.path = LowerStr(d.path)]

\* the distinct terms of the keyword list
KeywordTerms == {keywords[j] : j \in 1..Len(keywords)}

\* the keyword occurs as a literal substring of the extracted text (of one of
\* its strings, for the tabular capability)
OccursIn(word, v) ==
  IF v.kind = "list" THEN \E c \in 1..Len(v.cells) : Contains(v.cells[c], word)
  ELSE Contains(v.text, word)

\* the extraction of the document did not succeed: the PDF capability fell
\* through to the sentinel, or a log, mail or YAML capability returned a
\* failure message
ExtractionFailed(d) ==
  LET ext == splitext(LowerStr(d.path))
  IN \/ ext = ".pdf" /\ extract_text_from_pdf(d) = StrValue(Sentinel)
     \/ ext \in {".log", ".msg", ".eml", ".yaml"} /\ d.io # "ok"
     \/ ext = ".eml" /\ d.parts = "multi_noplain"

RECURSIVE SumCounts(_)
\* the sum, over the files of S, of the counts recorded under the file's name
SumCounts(S) ==
  IF S = {} THEN 0
  ELSE LET f == CHOOSE x \in S : TRUE
           counts == file_word_counts[basename(f)]
       IN counts.matched_count + counts.unmatched_count + SumCounts(S \ {f})

\* C1: every file the main loop is done with is in exactly one of
\* matched_files and unmatched_files, and a file whose extension is
\* unsupported or whose extraction yielded no text is in unmatched_files.
C1_ProcessedFilesClassified ==
  \A j \in 1..(i - 1) :
    /\ (PathOf(j) \in matched_files) # (PathOf(j) \in unmatched_files)
    /\ ~Truthy(process_file(DocOf(j))) => PathOf(j) \in unmatched_files

\* C2: a document whose capability fails does not abort the run: the run
\* never ends in an exception, and at its end both artifacts are written and
\* processed_files is exactly the set of discovered files.
C2_RunSurvivesFailures ==
  /\ pc # "aborted"
  /\ pc = "done" =>
       /\ processed_files = Discovered
       /\ Cardinality(processed_files) = Len(files)
       /\ report_file \in DOMAIN artifacts
       /\ output_file(now) \in DOMAIN artifacts

\* C3: in every state of the run, matched_files and unmatched_files are
\* disjoint and both are within processed_files.
C3_Partition ==
  /\ matched_files \cap unmatched_files = {}
  /\ (matched_files \cup unmatched_files) \subseteq processed_files

\* C3 witness: in the middle of the inner loop, a file has just been put in
\* matched_files while an earlier file sits in unmatched_files.
C3_Witness ==
  /\ pc = "words"
  /\ k <= Len(word_results)
  /\ file_matched
  /\ file_path \in matched_files
  /\ unmatched_files # {}

\* C4: the match map marks a keyword true exactly when the keyword is a
\* case-sensitive literal substring of the document's extracted text, for
\* every form of text the dispatcher hands to the matcher.
C4_MatchIsSubstring ==
  pc = "words" =>
    \A j \in 1..Len(word_results) :
      word_results[j].found <=> OccursIn(word_results[j].word, extracted_text)

\* C5: a document whose extraction did not succeed has no keyword recorded
\* as matched: no "matched" row, a matched_count of 0, never in matched_files.
C5_FailedExtractionMatchesNothing ==
  \A j \in 1..Len(files) :
    ExtractionFailed(DocOf(j)) =>
      /\ PathOf(j) \notin matched_files
      /\ \A r \in 1..Len(all_results) :
           all_results[r].file_path = PathOf(j) => all_results[r].status # "matched"
      /\ (pc = "words" /\ i = j) => matched_count = 0

\* C6 as stated, with the keyword set as main builds it (one term per row of
\* the rules source): the counts recorded for a file add up to the length of
\* the keyword list.
C6_CountsSumToKeywordRows ==
  \A b \in DOMAIN file_word_counts :
    file_word_counts[b].matched_count + file_word_counts[b].unmatched_count = Len(keywords)

\* C6 amended: the counts recorded for a file add up to the number of
\* distinct terms of the keyword list.
C6_CountsSumToDistinctKeywords ==
  \A b \in DOMAIN file_word_counts :
    file_word_counts[b].matched_count + file_word_counts[b].unmatched_count
      = Cardinality(KeywordTerms)

\* C6 witness: counts are recorded for a file under a keyword list that
\* repeats a term.
C6_Witness ==
  /\ DOMAIN file_word_counts # {}
  /\ Len(keywords) > Cardinality(KeywordTerms)

\* C7: two runs into the same output directory never write an artifact of the
\* same name.
C7_ArtifactNamesDiffer ==
  \A w1, w2 \in writes : w1.run # w2.run => w1.name # w2.name

\* C8: a path is extracted as its lower-case form is (same capability, same
\* outcome), and an unsupported extension gives the skip outcome.
C8_CaseInsensitiveDispatch ==
  /\ pc \in {"words", "aborted"} => extracted_text = process_file(LowerForm(document))
  /\ \A j \in 1..Len(files) :
       splitext(LowerStr(PathOf(j))) \notin ProcessorKeys => process_file(DocOf(j)) = NoneValue

\* C9: at the end of a run the table artifact has as many rows as the sum,
\* over matched_files and unmatched_files, of the counts recorded per file.
C9_TableRowCount ==
  pc = "done" =>
    Len(artifacts[output_file(now)].rows) = SumCounts(matched_files \cup unmatched_files)

\* C9 witness: a finished run with a matched file, an unmatched file and rows
\* of both statuses in the table.
C9_Witness ==
  /\ pc = "done"
  /\ matched_files # {}
  /\ unmatched_files # {}
  /\ \E r \in 1..Len(all_results) : all_results[r].status = "not matched"
  /\ \E r \in 1..Len(all_results) : all_results[r].status = "matched"

\* C10: the PDF capability never raises and returns the primary method's text
\* when that is non-blank, else the secondary method's text when that is
\* non-blank, else the sentinel.
C10_PdfFallbackChain ==
  /\ pc # "aborted"
  /\ pc = "words" =>
       LET primary == ReadPages(document.fitz, "")
           secondary == ReadPages(document.plumber, "")
       IN extracted_text =
            IF ~primary.failed /\ ~Blank(primary.text) THEN StrValue(primary.text)
            ELSE IF ~secondary.failed /\ ~Blank(secondary.text) THEN StrValue(secondary.text)
            ELSE StrValue(Sentinel)

\* the counts main's inner loop reaches for the j-th discovered file
CountsOf(j) ==
  LET results == search_words_in_text(process_file(DocOf(j)), keywords)
  IN [matched_count |-> Cardinality({r \in 1..Len(results) : results[r].found}),
      unmatched_count |-> Cardinality({r \in 1..Len(results) : ~results[r].found})]

\* the discovered files whose extraction yielded text
WithText == {j \in 1..Len(files) : Truthy(process_file(DocOf(j)))}

\* C11: at the end of a run file_word_counts holds exactly one entry per
\* document whose extraction yielded text, and the entry of each such
\* document holds that document's own counts, also when files of different
\* sub-directories share a file name.
C11_OneEntryPerDocument ==
  pc = "done" =>
    /\ Cardinality(DOMAIN file_word_counts) = Cardinality(WithText)
    /\ \A j \in WithText :
         /\ basename(PathOf(j)) \in DOMAIN file_word_counts
         /\ file_word_counts[basename(PathOf(j))] = CountsOf(j)

====
